---- MODULE Spec2Model ----
(***************************************************************************)
(* Model of print.py: the text-to-bitmap layout engine text_to_image       *)
(* (apply_styling, metrics accumulation, shrink-to-fit loop, compositor,   *)
(* width normaliser, save) and the command-line driver main.               *)
(*                                                                         *)
(* A call is either a direct call of text_to_image with an arbitrary       *)
(* positive max_width, or a run of main, which passes PRINT_WIDTH.         *)
(***************************************************************************)
EXTENDS Integers, Sequences, FiniteSets, TLC

VARIABLES
    caller,          \* "direct": text_to_image called on its own; "main": a run of main
    pc,              \* position in main / text_to_image
    text,            \* text argument (sequence of characters)
    font_path,       \* font_path argument
    req_size,        \* font_size argument as passed by the caller
    max_width,       \* max_width argument
    bold,            \* bold argument
    strikethrough,   \* strikethrough argument
    align,           \* align argument
    installed,       \* font files that can be opened
    font_size,       \* local font_size (decremented by the shrink loop)
    font,            \* local font: NoFont or [path, size]
    lines,           \* local lines
    max_text_width,  \* local max_text_width
    total_height,    \* local total_height
    line_heights,    \* local line_heights
    image,           \* local image: NoImage or [width, height]
    drawn,           \* draw operations issued on image, one per line
    saved,           \* the raster written by image.save: NoImage or [width, height]
    result,          \* how the call ended: "none", "ok" or the exception raised
    argFilename,     \* main: args.filename ("" when absent)
    fileExists,      \* main: os.path.exists(args.filename)
    show_preview,    \* main: args.show_preview
    readImg,         \* main: outcome of read_img ("none" before the call)
    runBleCalls      \* main: number of invocations of run_ble

vars == <<caller, pc, text, font_path, req_size, max_width, bold, strikethrough,
          align, installed, font_size, font, lines, max_text_width, total_height,
          line_heights, image, drawn, saved, result, argFilename, fileExists,
          show_preview, readImg, runBleCalls>>

ttiArgs == <<text, font_path, req_size, max_width, bold, strikethrough, align, installed>>
mainArgs == <<argFilename, fileExists, show_preview>>
metrics == <<max_text_width, total_height, line_heights>>

----------------------------------------------------------------------------
(* Bounds of the model *)
MaxLen == 3      \* longest text, in characters
MaxSize == 5     \* largest requested font size
MaxWidth == 4    \* largest max_width of a direct call

(* Program constant: the printer's raster width, imported from catprinter.cmds *)
PRINT_WIDTH == 384

NL == "\n"
Chars == {"i", "W", NL}
Aligns == {"left", "center", "right"}
FontPaths == {"arial.ttf"}
NoFont == [path |-> "", size |-> 0]
NoImage == [width |-> -1, height |-> -1]

Max(a, b) == IF a > b THEN a ELSE b

Texts == UNION {[1..n -> Chars] : n \in 0..MaxLen}

----------------------------------------------------------------------------
(* str.split('\n'): the pieces between the separators; always at least one   *)
(* piece, so "" splits into [""].                                         *)
RECURSIVE SplitFrom(_, _, _)
SplitFrom(s, i, cur) ==
    IF i > Len(s) THEN <<cur>>
    ELSE IF s[i] = NL THEN <<cur>> \o SplitFrom(s, i + 1, <<>>)
    ELSE SplitFrom(s, i + 1, Append(cur, s[i]))

Split(s) == SplitFrom(s, 1, <<>>)

(* font_path.replace('.ttf', '-Bold.ttf') on the font paths of the model *)
BoldPath(p) == IF p = "arial.ttf" THEN "arial-Bold.ttf" ELSE p

FontFiles == FontPaths \cup {BoldPath(p) : p \in FontPaths}

(* ImageFont.truetype(path, size): fails when the file cannot be opened or *)
(* the size is not positive.                                               *)
CanLoad(path, size, files) == path \in files /\ size > 0
Truetype(path, size) == [path |-> path, size |-> size]

(* Glyph metrics of the font engine: advance of a character in quarters of *)
(* the font size; the bold face is wider.                                  *)
CharAdvance(c, path) ==
    (IF c = "W" THEN 4 ELSE 2) + (IF path = "arial-Bold.ttf" THEN 1 ELSE 0)

RECURSIVE SumAdvance(_, _)
SumAdvance(line, path) ==
    IF line = <<>> THEN 0
    ELSE CharAdvance(Head(line), path) + SumAdvance(Tail(line), path)

(* draw.textbbox((0, 0), line, font=font): the box the line occupies when  *)
(* drawn at the origin, as (left, top, right, bottom).                     *)
TextBBox(line, f) ==
    IF line = <<>> THEN <<0, 0, 0, 0>>
    ELSE <<0, 0, (SumAdvance(line, f.path) * f.size) \div 4, f.size>>

LineWidth(line, f) == TextBBox(line, f)[3] - TextBBox(line, f)[1]
LineHeight(line, f) == TextBBox(line, f)[4] - TextBBox(line, f)[2]

(* The accumulation loop over the lines: running maximum of the widths,    *)
(* running sum of the heights, heights appended in line order.             *)
RECURSIVE Accumulate(_, _, _)
Accumulate(ls, f, acc) ==
    IF ls = <<>> THEN acc
    ELSE Accumulate(Tail(ls), f,
            [max_text_width |-> Max(acc.max_text_width, LineWidth(Head(ls), f)),
             total_height   |-> acc.total_height + LineHeight(Head(ls), f),
             line_heights   |-> Append(acc.line_heights, LineHeight(Head(ls), f))])

ZeroMetrics == [max_text_width |-> 0, total_height |-> 0, line_heights |-> <<>>]


(* The font apply_styling returns: the regular face is always opened       *)
(* first; with bold the bold-variant file is opened as well and replaces   *)
(* it.                                                                     *)
StyledFontLoads(path, size, b, files) ==
    CanLoad(path, size, files) /\ (b => CanLoad(BoldPath(path), size, files))
StyledFont(path, size, b) ==
    IF b THEN Truetype(BoldPath(path), size) ELSE Truetype(path, size)

(* Horizontal placement of a line on a canvas image_width wide *)
XPositionUncentred(al, image_width, line_width) ==
    IF al = "center" THEN image_width \div 2
    ELSE IF al = "right" THEN image_width - line_width
    ELSE 0

XPosition(al, image_width, line_width) ==
    IF al = "center" THEN (image_width - line_width) \div 2
    ELSE IF al = "right" THEN image_width - line_width
    ELSE 0

(* The compositor loop over zip(lines, line_heights): one draw operation   *)
(* per line; strike is the segment (x0, y0, x1, y1) of draw.line, or <<>>. *)
RECURSIVE DrawLines(_, _, _, _, _, _, _)
DrawLines(ls, hs, current_y, f, image_width, strike, al) ==
    IF ls = <<>> \/ hs = <<>> THEN <<>>
    ELSE LET line == Head(ls)
             line_height == Head(hs)
             line_bbox == TextBBox(line, f)
             op == [line   |-> line,
                    font   |-> f,
                    x      |-> XPosition(al, image_width, LineWidth(line, f)),
                    y      |-> current_y,
                    height |-> line_height,
                    strike |-> IF strike
                               THEN <<line_bbox[1], current_y + line_height \div 2,
                                      line_bbox[3], current_y + line_height \div 2>>
                               ELSE <<>>]
         IN  <<op>> \o DrawLines(Tail(ls), Tail(hs), current_y + line_height,
                                 f, image_width, strike, al)

(* The width normaliser: resize to max_width columns, height scaled by     *)
(* max_width / image.width and truncated by int().                         *)
NormalizeTransposed(img, mw) ==
    [width |-> (img.height * mw) \div img.width, height |-> mw]

Normalize(img, mw) ==
    IF img.width # mw
    THEN [width |-> mw, height |-> (img.height * mw) \div img.width]
    ELSE img

(* image.save of a raster without pixels succeeds or raises, depending on  *)
(* the imaging library and the output format.                              *)
SaveOutcomes(img) ==
    IF img.width = 0 \/ img.height = 0 THEN {"ok", "SaveError"} ELSE {"ok"}

----------------------------------------------------------------------------
TtiLocalsInit ==
    /\ font = NoFont
    /\ lines = <<>>
    /\ max_text_width = 0
    /\ total_height = 0
    /\ line_heights = <<>>
    /\ image = NoImage
    /\ drawn = <<>>
    /\ saved = NoImage
    /\ result = "none"

Init ==
    /\ caller \in {"direct", "main"}
    /\ text \in Texts
    /\ font_path \in FontPaths
    /\ req_size \in 0..MaxSize
    /\ bold \in BOOLEAN
    /\ strikethrough \in BOOLEAN
    /\ align \in Aligns
    /\ installed \in SUBSET FontFiles
    /\ font_size = req_size
    /\ TtiLocalsInit
    /\ readImg = "none"
    /\ runBleCalls = 0
    /\ \/ /\ caller = "direct"
          /\ pc = "text_to_image"
          /\ max_width \in 1..MaxWidth
          /\ argFilename = ""
          /\ fileExists = FALSE
          /\ show_preview = FALSE
       \/ /\ caller = "main"
          /\ pc = "main"
          /\ max_width = PRINT_WIDTH
          /\ argFilename \in {"", "img.png"}
          /\ fileExists \in BOOLEAN
          /\ show_preview \in BOOLEAN

----------------------------------------------------------------------------
(* text_to_image *)

(* line 62: font, styled_text = apply_styling(...) *)
ApplyStyling ==
    /\ pc = "text_to_image"
    /\ IF StyledFontLoads(font_path, font_size, bold, installed)
       THEN /\ font' = StyledFont(font_path, font_size, bold)
            /\ pc' = "measure"
            /\ result' = result
       ELSE /\ font' = font
            /\ pc' = "raised"
            /\ result' = "FontLoadError"
    /\ UNCHANGED <<caller, ttiArgs, mainArgs, font_size, lines, metrics, image,
                   drawn, saved, readImg, runBleCalls>>

(* lines 64-79: split the text and measure every line with the font *)
MeasureInitial ==
    /\ pc = "measure"
    /\ lines' = Split(text)
    /\ LET m == Accumulate(lines', font, ZeroMetrics)
       IN  /\ max_text_width' = m.max_text_width
           /\ total_height' = m.total_height
           /\ line_heights' = m.line_heights
    /\ pc' = "shrink"
    /\ UNCHANGED <<caller, ttiArgs, mainArgs, font_size, font, image, drawn,
                   saved, result, readImg, runBleCalls>>

(* lines 81-93, one iteration of the while loop, with stale heights kept *)
ShrinkStepKeepsHeights ==
    /\ pc = "shrink"
    /\ max_text_width > max_width
    /\ font_size' = font_size - 1
    /\ IF CanLoad(font_path, font_size', installed)
       THEN /\ font' = Truetype(font_path, font_size')
            /\ LET m == Accumulate(lines, font', ZeroMetrics)
               IN  /\ max_text_width' = m.max_text_width
                   /\ total_height' = total_height + m.total_height
                   /\ line_heights' = line_heights \o m.line_heights
            /\ pc' = "shrink"
            /\ result' = result
       ELSE /\ UNCHANGED <<font, metrics>>
            /\ pc' = "raised"
            /\ result' = "FontLoadError"
    /\ UNCHANGED <<caller, ttiArgs, mainArgs, lines, image, drawn, saved,
                   readImg, runBleCalls>>

(* lines 81-93: one iteration of the while loop *)
ShrinkStep ==
    /\ pc = "shrink"
    /\ max_text_width > max_width
    /\ font_size' = font_size - 1
    /\ IF CanLoad(font_path, font_size', installed)
       THEN /\ font' = Truetype(font_path, font_size')
            /\ LET m == Accumulate(lines, font', ZeroMetrics)
               IN  /\ max_text_width' = m.max_text_width
                   /\ total_height' = m.total_height
                   /\ line_heights' = m.line_heights
            /\ pc' = "shrink"
            /\ result' = result
       ELSE /\ UNCHANGED <<font, metrics>>
            /\ pc' = "raised"
            /\ result' = "FontLoadError"
    /\ UNCHANGED <<caller, ttiArgs, mainArgs, lines, image, drawn, saved,
                   readImg, runBleCalls>>

(* line 81 false, lines 95-117: allocate the canvas and draw every line *)
Compose ==
    /\ pc = "shrink"
    /\ ~(max_text_width > max_width)
    /\ LET padding == font_size \div 5
           image_width == Max(max_text_width, max_width)
       IN  /\ image' = [width |-> image_width, height |-> total_height + padding * 2]
           /\ drawn' = DrawLines(lines, line_heights, padding, font, image_width,
                                 strikethrough, align)
    /\ pc' = "normalize"
    /\ UNCHANGED <<caller, ttiArgs, mainArgs, font_size, font, lines, metrics,
                   saved, result, readImg, runBleCalls>>

(* lines 119-124: normalise the width and save; text_to_image returns *)
NormalizeAndSave ==
    /\ pc = "normalize"
    /\ image' = Normalize(image, max_width)
    /\ \E outcome \in SaveOutcomes(image') :
          IF outcome = "ok"
          THEN /\ saved' = image'
               /\ result' = "ok"
               /\ pc' = IF caller = "main" THEN "read_img" ELSE "done"
          ELSE /\ saved' = saved
               /\ result' = outcome
               /\ pc' = "raised"
    /\ UNCHANGED <<caller, ttiArgs, mainArgs, font_size, font, lines, metrics,
                   drawn, readImg, runBleCalls>>

----------------------------------------------------------------------------
(* main *)

ttiLocals == <<font_size, font, lines, metrics, image, drawn, saved, result>>

(* lines 132-134: text given, render it to output_image.png *)
MainText ==
    /\ pc = "main"
    /\ text # <<>>
    /\ pc' = "text_to_image"
    /\ UNCHANGED <<caller, ttiArgs, mainArgs, ttiLocals, readImg, runBleCalls>>

(* lines 135-139: a file name given *)
MainFile ==
    /\ pc = "main"
    /\ text = <<>>
    /\ argFilename # ""
    /\ pc' = IF ~fileExists THEN "main_done" ELSE "read_img"
    /\ UNCHANGED <<caller, ttiArgs, mainArgs, ttiLocals, readImg, runBleCalls>>

(* lines 140-142: no input *)
MainNoInput ==
    /\ pc = "main"
    /\ text = <<>>
    /\ argFilename = ""
    /\ pc' = "main_done"
    /\ UNCHANGED <<caller, ttiArgs, mainArgs, ttiLocals, readImg, runBleCalls>>

(* lines 144-154, with the RuntimeError handler falling through *)
ReadImgFallsThrough ==
    /\ pc = "read_img"
    /\ \E outcome \in {"image", "RuntimeError", "OtherError"} :
          /\ readImg' = outcome
          /\ pc' = IF outcome = "OtherError" THEN "raised"
                   ELSE IF outcome = "image" /\ show_preview THEN "show_preview"
                   ELSE "send"
    /\ UNCHANGED <<caller, ttiArgs, mainArgs, ttiLocals, runBleCalls>>

(* lines 144-149, 152-154: read_img returns an image or raises *)
ReadImg ==
    /\ pc = "read_img"
    /\ \E outcome \in {"image", "RuntimeError", "OtherError"} :
          /\ readImg' = outcome
          /\ pc' = IF outcome = "RuntimeError" THEN "main_done"
                   ELSE IF outcome = "OtherError" THEN "raised"
                   ELSE IF show_preview THEN "show_preview"
                   ELSE "send"
    /\ UNCHANGED <<caller, ttiArgs, mainArgs, ttiLocals, runBleCalls>>

(* lines 150-154: show_preview returns, or raises RuntimeError *)
ShowPreview ==
    /\ pc = "show_preview"
    /\ \E outcome \in {"ok", "RuntimeError"} :
          pc' = IF outcome = "ok" THEN "send" ELSE "main_done"
    /\ UNCHANGED <<caller, ttiArgs, mainArgs, ttiLocals, readImg, runBleCalls>>

(* lines 156-160: encode the image and send it with run_ble *)
Send ==
    /\ pc = "send"
    /\ runBleCalls' = runBleCalls + 1
    /\ pc' = "main_done"
    /\ UNCHANGED <<caller, ttiArgs, mainArgs, ttiLocals, readImg>>

Next ==
    \/ ApplyStyling
    \/ MeasureInitial
    \/ ShrinkStep
    \/ Compose
    \/ NormalizeAndSave
    \/ MainText
    \/ MainFile
    \/ MainNoInput
    \/ ReadImg
    \/ ShowPreview
    \/ Send

Spec == Init /\ [][Next]_vars

----------------------------------------------------------------------------
(* Properties *)

Terminated == pc \in {"done", "raised", "main_done"}
Composed == image # NoImage
Shrunk == font_size < req_size

RECURSIVE SumSeq(_)
SumSeq(q) == IF q = <<>> THEN 0 ELSE Head(q) + SumSeq(Tail(q))

(* Width of the widest line of ls at size s in the style the caller asked for *)
BlockWidth(ls, s) ==
    LET f == StyledFont(font_path, s, bold)
    IN  IF \E i \in DOMAIN ls : TRUE
        THEN CHOOSE w \in {LineWidth(ls[i], f) : i \in DOMAIN ls} :
                 \A j \in DOMAIN ls : LineWidth(ls[j], f) <= w
        ELSE 0

(* C1: every call of text_to_image that completes has saved a raster whose *)
(* width is exactly max_width.                                             *)
C1_SavedWidthIsMaxWidth ==
    result = "ok" => saved # NoImage /\ saved.width = max_width

C1_Witness ==
    /\ result = "ok"
    /\ caller = "direct"
    /\ Shrunk
    /\ max_text_width > 0
    /\ saved.width = max_width

(* C2: when the shrink search has ended, the font size is the largest size *)
(* not above the requested one whose block width is at most max_width: it  *)
(* fits, no larger size up to the requested one fits, it is the requested  *)
(* size when that one fits, and it never exceeds the requested size.       *)
C2_LargestFittingSize ==
    Composed =>
        /\ font_size <= req_size
        /\ BlockWidth(lines, font_size) <= max_width
        /\ \A s \in (font_size + 1)..req_size : BlockWidth(lines, s) > max_width
        /\ (BlockWidth(lines, req_size) <= max_width => font_size = req_size)

(* C3: the shrink loop never decrements the font size below the floor of   *)
(* size 1.                                                                 *)
C3_FloorAtOne ==
    [][font_size' # font_size => font_size' >= 1]_vars

(* C4: when the search has reached size 1 with the block still wider than  *)
(* max_width, the call ends with a raster saved and LayoutOverconstrained  *)
(* reported.                                                               *)
C4_BestEffortRender ==
    (Terminated /\ font # NoFont /\ font.size = 1 /\ max_text_width > max_width)
        => saved # NoImage /\ result = "LayoutOverconstrained"

(* C5: with bold requested, the font of the final render, used to measure  *)
(* and to draw every line, is the bold-variant font resource.              *)
C5_BoldKept ==
    (bold /\ Composed) =>
        /\ font.path = BoldPath(font_path)
        /\ \A i \in DOMAIN drawn : drawn[i].font.path = BoldPath(font_path)

(* C6: with strikethrough requested, the segment of every line that has    *)
(* glyphs runs from x_position to x_position + line_width at height        *)
(* current_y + line_height // 2.                                           *)
C6_StrikeCoversGlyphs ==
    (strikethrough /\ Composed) =>
        \A i \in DOMAIN drawn :
            LET d == drawn[i]
                w == LineWidth(d.line, d.font)
            IN  w > 0 => d.strike = <<d.x, d.y + d.height \div 2,
                                      d.x + w, d.y + d.height \div 2>>

(* C7: for empty text, a positive requested size and loadable fonts, the   *)
(* call ends without error with a raster max_width wide and                *)
(* 2 * (font size // 5) high that has at least one row.                    *)
C7_EmptyTextRaster ==
    (/\ Terminated
     /\ caller = "direct"
     /\ text = <<>>
     /\ StyledFontLoads(font_path, req_size, bold, installed))
        => /\ result = "ok"
           /\ saved.width = max_width
           /\ saved.height = 2 * (req_size \div 5)
           /\ saved.height >= 1

(* C8: after composition every line sits at x = 0 (left),                  *)
(* (canvas_width - line_width) // 2 (center) or canvas_width - line_width  *)
(* (right), with 0 <= x and x + line_width <= canvas_width; a              *)
(* right-aligned line ends at column canvas_width - 1.                     *)
C8_PlacementInsideCanvas ==
    pc = "normalize" =>
        \A i \in DOMAIN drawn :
            LET d == drawn[i]
                w == LineWidth(d.line, d.font)
                cw == image.width
            IN  /\ align = "left" => d.x = 0
                /\ align = "center" => d.x = (cw - w) \div 2
                /\ align = "right" => d.x = cw - w /\ d.x + w - 1 = cw - 1
                /\ 0 <= d.x
                /\ d.x + w <= cw

C8_Witness ==
    /\ pc = "normalize"
    /\ align = "center"
    /\ Shrunk
    /\ Len(drawn) >= 2
    /\ \E i \in DOMAIN drawn :
          LET w == LineWidth(drawn[i].line, drawn[i].font)
          IN  0 < w /\ w < image.width /\ drawn[i].x > 0

(* C9: whenever the block metrics are in use (loop test, composition,      *)
(* after it) max_text_width, total_height and line_heights are those of    *)
(* the current lines measured with the current font, whose size is the     *)
(* current font size, and every line is drawn with that font.              *)
C9_MetricsOfCurrentFont ==
    (pc \in {"shrink", "normalize"} \/ result = "ok") =>
        /\ font.size = font_size
        /\ Len(line_heights) = Len(lines)
        /\ \A i \in DOMAIN lines : line_heights[i] = LineHeight(lines[i], font)
        /\ total_height = SumSeq(line_heights)
        /\ \A i \in DOMAIN lines : LineWidth(lines[i], font) <= max_text_width
        /\ \/ max_text_width = 0
           \/ \E i \in DOMAIN lines : LineWidth(lines[i], font) = max_text_width
        /\ Composed =>
              /\ Len(drawn) = Len(lines)
              /\ \A i \in DOMAIN drawn :
                    /\ drawn[i].font = font
                    /\ drawn[i].line = lines[i]
                    /\ drawn[i].height = line_heights[i]

C9_Witness ==
    /\ pc = "normalize"
    /\ req_size - font_size >= 2
    /\ Len(lines) >= 2
    /\ total_height > 0
    /\ bold

====
